---- MODULE Spec2Model ----
(***************************************************************************)
(* Model of the AI Code Reviewer front end: the local report generators    *)
(* (getMockResponse in services/api.js and in App.jsx, the hard-coded      *)
(* fallback of the generated services/api.js), the service functions of    *)
(* services/api.js, and the FileUploader and App components.               *)
(*                                                                         *)
(* A JavaScript string is a sequence of one-character strings; "\n" is the *)
(* line separator, so split, includes, trim, startsWith, endsWith and the  *)
(* quote-counting regular expressions are computed character by character. *)
(***************************************************************************)
EXTENDS Integers, Sequences, FiniteSets, TLC

VARIABLES
    src,        \* analysis harness: the code string handed to a generator
    gen,        \* analysis harness: which generator produced `returned`
    returned,   \* analysis harness: the report returned (a set of 0 or 1 reports)
    promise,    \* service calls made on src so far, each with its settled promise
    code,       \* App state: code
    filename,   \* App state: filename
    language,   \* App state: language
    issues,     \* App state: issues
    summary,    \* App state: summary (Null or Some(summary))
    stats,      \* App state: stats (Null or Some(stats))
    loading,    \* App state: loading
    pending,    \* handleReview invocations suspended at an await
    alerts,     \* messages shown by alert(), most recent last
    fileName,   \* FileUploader state: fileName
    uploaderCode,     \* FileUploader state: code
    githubUrl,  \* FileUploader state: githubUrl
    uploaderLoading,  \* FileUploader state: loading
    error,      \* FileUploader state: error
    reads,      \* FileReader reads in flight (the files)
    fetches,    \* handleGithubFetch invocations suspended at await fetch
    currentPage \* App state: currentPage

vars == <<src, gen, returned, promise, code, filename, language, issues, summary,
          stats, loading, pending, alerts, fileName, uploaderCode, githubUrl,
          uploaderLoading, error, reads, fetches, currentPage>>

analysisVars == <<src, gen, returned, promise>>
reviewVars == <<language, issues, summary, stats, loading, pending, alerts>>
uploaderVars == <<fileName, uploaderCode, githubUrl, uploaderLoading, error,
                  reads, fetches>>
appVars == <<code, filename, reviewVars, uploaderVars, currentPage>>

-----------------------------------------------------------------------------
(* Bounds *)

MaxLines == 5
MaxAlerts == 1
MaxCalls == 2
MaxInFlight == 2

-----------------------------------------------------------------------------
(* Strings *)

NL == "\n"
DQ == "\""
SQ == "'"

\* String.prototype.includes
Includes(s, pat) ==
    \E i \in 1..(Len(s) - Len(pat) + 1) : SubSeq(s, i, i + Len(pat) - 1) = pat

\* String.prototype.startsWith
StartsWith(s, pat) ==
    Len(s) >= Len(pat) /\ SubSeq(s, 1, Len(pat)) = pat

\* String.prototype.endsWith
EndsWith(s, pat) ==
    Len(s) >= Len(pat) /\ SubSeq(s, Len(s) - Len(pat) + 1, Len(s)) = pat

IsWhiteSpace(c) == c \in {" ", "\t", NL}

RECURSIVE TrimStart(_)
TrimStart(s) ==
    IF s # <<>> /\ IsWhiteSpace(Head(s)) THEN TrimStart(Tail(s)) ELSE s

RECURSIVE TrimEnd(_)
TrimEnd(s) ==
    IF s # <<>> /\ IsWhiteSpace(s[Len(s)])
    THEN TrimEnd(SubSeq(s, 1, Len(s) - 1))
    ELSE s

\* String.prototype.trim
Trim(s) == TrimEnd(TrimStart(s))

\* code.split('\n'): always at least one element; '' splits to ['']
RECURSIVE Split(_)
Split(s) ==
    IF \E i \in 1..Len(s) : s[i] = NL
    THEN LET i == CHOOSE k \in 1..Len(s) :
                      s[k] = NL /\ \A j \in 1..(k - 1) : s[j] # NL
         IN  <<SubSeq(s, 1, i - 1)>> \o Split(SubSeq(s, i + 1, Len(s)))
    ELSE <<s>>

\* (line.match(/c/g) || []).length
CountChar(s, c) == Cardinality({i \in 1..Len(s) : s[i] = c})

\* a run of ChunkLength letters x, written as one element of a string
ChunkLength == 10 * 1024 * 1024
Chunk == "x{10485760}"

\* String.prototype.length
Length(s) == Len(s) + (ChunkLength - 1) * CountChar(s, Chunk)

UpperCase == <<"A", "B", "C", "D", "E", "F", "G", "H", "I", "J", "K", "L", "M", "N", "O", "P", "Q", "R", "S", "T", "U", "V", "W", "X", "Y", "Z">>
LowerCase == <<"a", "b", "c", "d", "e", "f", "g", "h", "i", "j", "k", "l", "m", "n", "o", "p", "q", "r", "s", "t", "u", "v", "w", "x", "y", "z">>

\* String.prototype.toLowerCase
ToLowerCase(s) ==
    [i \in 1..Len(s) |->
        IF \E k \in 1..Len(UpperCase) : UpperCase[k] = s[i]
        THEN LowerCase[CHOOSE k \in 1..Len(UpperCase) : UpperCase[k] = s[i]]
        ELSE s[i]]

\* String.prototype.lastIndexOf for a one-character pattern: 0-based, -1
\* when the character does not occur
LastIndexOf(s, c) ==
    LET at == {i \in 1..Len(s) : s[i] = c}
    IN  IF at = {} THEN -1
        ELSE (CHOOSE i \in at : \A j \in at : j <= i) - 1

\* String.prototype.substring(start): a negative start counts as 0
Substring(s, start) ==
    SubSeq(s, (IF start < 0 THEN 0 ELSE start) + 1, Len(s))

\* String.prototype.replace with a string pattern: the first occurrence only
Replace(s, pat, by) ==
    LET at == {i \in 1..(Len(s) - Len(pat) + 1) :
                  SubSeq(s, i, i + Len(pat) - 1) = pat}
    IN  IF at = {} THEN s
        ELSE LET i == CHOOSE k \in at : \A j \in at : k <= j
             IN  SubSeq(s, 1, i - 1) \o by \o SubSeq(s, i + Len(pat), Len(s))

\* Array.prototype.includes
ArrayIncludes(arr, x) == \E i \in 1..Len(arr) : arr[i] = x

\* Array.prototype.findIndex over the callback's results, one per element:
\* the 0-based index of the first true one, -1 when there is none
FindIndex(tests) ==
    IF \E i \in 1..Len(tests) : tests[i]
    THEN (CHOOSE i \in 1..Len(tests) :
              tests[i] /\ \A j \in 1..(i - 1) : ~tests[j]) - 1
    ELSE -1

\* lines joined back into one string with "\n"
RECURSIVE Join(_)
Join(ls) ==
    IF Len(ls) = 1 THEN ls[1] ELSE ls[1] \o <<NL>> \o Join(Tail(ls))

-----------------------------------------------------------------------------
(* The literals the generators search for *)

PatPassword == <<"p", "a", "s", "s", "w", "o", "r", "d">>

PatEquals == <<"=">>

PatDivSpace == <<"/", " ", "0">>

PatDiv == <<"/", "0">>

PatIf == <<"i", "f", " ">>

PatFor == <<"f", "o", "r", " ">>

PatWhile == <<"w", "h", "i", "l", "e", " ">>

PatDef == <<"d", "e", "f", " ">>

PatColon == <<":">>

-----------------------------------------------------------------------------
(* Inputs: code strings built from a pool of concrete lines *)

\* result = 10 / 0   (Scenario A's line)
LineDivZero ==
    <<"r", "e", "s", "u", "l", "t", " ", "=", " ", "1", "0", " ", "/", " ", "0">>

\* password = "hunter2"   (Scenario B's line)
LinePassword ==
    <<"p", "a", "s", "s", "w", "o", "r", "d", " ", "=", " ", DQ, "h", "u", "n", "t", "e", "r", "2", DQ>>

\* s = "abc   (an unterminated string literal)
LineUnclosed ==
    <<"s", " ", "=", " ", DQ, "a", "b", "c">>

\* # password   (the word password without '=')
LinePasswordWord ==
    <<"#", " ", "p", "a", "s", "s", "w", "o", "r", "d">>

\* if x   (a block header without its colon)
LineIf ==
    <<"i", "f", " ", "x">>

\* x   (a line no rule matches)
LinePlain ==
    <<"x">>

\*      (a whitespace-only line)
LineBlank ==
    <<" ", " ">>

LinePool ==
    {LineDivZero, LinePassword, LineUnclosed, LinePasswordWord, LineIf, LinePlain}

LineSeqs(n) == UNION {[1..k -> LinePool] : k \in 1..n}

\* the empty string and every code string of 1..MaxLines pool lines
Codes == {<<>>} \cup {Join(ls) : ls \in LineSeqs(MaxLines)}

-----------------------------------------------------------------------------
(* Reports *)

Severities == {"HIGH", "MEDIUM", "LOW"}
Categories == {"bug", "security", "best_practice", "syntax"}

Issue(line, problem, severity, suggestion, category) ==
    [line |-> line, problem |-> problem, severity |-> severity,
     suggestion |-> suggestion, category |-> category]

\* variant of ByCategory: acc[i.category] = 1 in place of the increment
RECURSIVE ByCategoryFlag(_, _)
ByCategoryFlag(acc, iss) ==
    IF iss = <<>> THEN acc
    ELSE ByCategoryFlag([k \in (DOMAIN acc) \cup {Head(iss).category} |->
                            IF k = Head(iss).category THEN 1 ELSE acc[k]],
                        Tail(iss))

\* issues.reduce((acc, i) => { acc[i.category] = (acc[i.category] || 0) + 1;
\* return acc; }, {}): only the categories that occur become keys
RECURSIVE ByCategory(_, _)
ByCategory(acc, iss) ==
    IF iss = <<>> THEN acc
    ELSE LET c == Head(iss).category
             old == IF c \in DOMAIN acc THEN acc[c] ELSE 0
         IN  ByCategory([k \in (DOMAIN acc) \cup {c} |->
                            IF k = c THEN old + 1 ELSE acc[k]],
                        Tail(iss))

EmptyObject == [k \in {} |-> 0]

\* issues.filter(i => i.severity === s).length
SeverityCount(iss, s) ==
    Cardinality({i \in 1..Len(iss) : iss[i].severity = s})

\* variant of BySeverity: built by the same reduce as by_category, so that
\* only the severities that occur become keys
RECURSIVE SeverityReduce(_, _)
SeverityReduce(acc, iss) ==
    IF iss = <<>> THEN acc
    ELSE LET s == Head(iss).severity
             old == IF s \in DOMAIN acc THEN acc[s] ELSE 0
         IN  SeverityReduce([k \in (DOMAIN acc) \cup {s} |->
                                IF k = s THEN old + 1 ELSE acc[k]],
                            Tail(iss))

BySeverityReduced(iss) == SeverityReduce([k \in {} |-> 0], iss)

\* by_severity: { HIGH: ..., MEDIUM: ..., LOW: ... }
BySeverity(iss) ==
    [HIGH |-> SeverityCount(iss, "HIGH"),
     MEDIUM |-> SeverityCount(iss, "MEDIUM"),
     LOW |-> SeverityCount(iss, "LOW")]

\* variant of Summary: total_issues counts the HIGH issues only
SummaryCountingHigh(iss) ==
    [total_issues |-> BySeverity(iss).HIGH,
     by_severity |-> BySeverity(iss),
     by_category |-> ByCategory(EmptyObject, iss)]

Summary(iss) ==
    [total_issues |-> Len(iss),
     by_severity |-> BySeverity(iss),
     by_category |-> ByCategory(EmptyObject, iss)]

\* variant of Stats: code_lines taken from the character count
StatsCodeLinesFromCharacters(c) ==
    [total_lines |-> Len(Split(c)),
     code_lines |-> (Len(c) * 4) \div 5,
     functions |-> Len(Split(c)) \div 5,
     characters |-> Len(c)]

\* Math.floor(lines * 0.8) and Math.floor(lines / 5); for the line counts of
\* the model the double product lines * 0.8 floors to (4 * lines) div 5
Stats(c) ==
    LET lines == Len(Split(c))
    IN  [total_lines |-> lines,
         code_lines |-> (lines * 4) \div 5,
         functions |-> lines \div 5,
         characters |-> Length(c)]

Report(iss, c) ==
    [issues |-> iss, summary |-> Summary(iss), stats |-> Stats(c),
     language |-> "python"]

-----------------------------------------------------------------------------
(* getMockResponse, services/api.js *)

HasPasswordAssign(l) == Includes(l, PatPassword) /\ Includes(l, PatEquals)

HasDivZero(l) == Includes(l, PatDivSpace) \/ Includes(l, PatDiv)

PasswordIssue(c, suggestion) ==
    IF Includes(c, PatPassword) /\ Includes(c, PatEquals)
    THEN LET ls == Split(c)
         IN  <<Issue(FindIndex([i \in DOMAIN ls |->
                                  HasPasswordAssign(ls[i])]) + 1,
                     "Hardcoded password detected", "HIGH", suggestion,
                     "security")>>
    ELSE <<>>

\* variant of DivZeroIssue: `else if`, the rule runs only when the password
\* rule found nothing
DivZeroIssueElseIf(c, suggestion) ==
    IF Includes(c, PatPassword) /\ Includes(c, PatEquals) THEN <<>>
    ELSE IF Includes(c, PatDivSpace) \/ Includes(c, PatDiv)
    THEN LET ls == Split(c)
             lineNum == FindIndex([i \in DOMAIN ls |-> HasDivZero(ls[i])]) + 1
         IN  <<Issue(IF lineNum # 0 THEN lineNum ELSE 1,
                     "Division by zero", "HIGH", suggestion, "bug")>>
    ELSE <<>>

DivZeroIssue(c, suggestion) ==
    IF Includes(c, PatDivSpace) \/ Includes(c, PatDiv)
    THEN LET ls == Split(c)
             lineNum == FindIndex([i \in DOMAIN ls |-> HasDivZero(ls[i])]) + 1
         IN  <<Issue(IF lineNum # 0 THEN lineNum ELSE 1,
                     "Division by zero", "HIGH", suggestion, "bug")>>
    ELSE <<>>

UnclosedString(l) == CountChar(l, DQ) % 2 # 0 \/ CountChar(l, SQ) % 2 # 0

MissingColon(l) ==
    LET stripped == Trim(l)
    IN  /\ \/ StartsWith(stripped, PatIf)
           \/ StartsWith(stripped, PatFor)
           \/ StartsWith(stripped, PatWhile)
           \/ StartsWith(stripped, PatDef)
        /\ ~EndsWith(stripped, PatColon)

\* the elements of a set of indexes in ascending order
RECURSIVE Ascending(_)
Ascending(S) ==
    IF S = {} THEN <<>>
    ELSE LET lo == CHOOSE i \in S : \A j \in S : i <= j
         IN  <<lo>> \o Ascending(S \ {lo})

\* lines_array.forEach((line, index) => { if (...) issues.push({line:
\* index + 1, severity: 'HIGH', category: 'syntax', ...}) }), given the
\* condition's result for each line: one issue per matching line, in line order
ForEachPush(tests, problem, suggestion) ==
    LET hits == Ascending({i \in 1..Len(tests) : tests[i]})
    IN  [k \in 1..Len(hits) |->
            Issue(hits[k], problem, "HIGH", suggestion, "syntax")]

UnclosedStringIssues(c) ==
    LET lines_array == Split(c)
    IN  ForEachPush([i \in DOMAIN lines_array |->
                        UnclosedString(lines_array[i])],
                    "Unclosed string",
                    "Add closing quote at the end of the line")

MissingColonIssues(c) ==
    LET lines_array == Split(c)
    IN  ForEachPush([i \in DOMAIN lines_array |->
                        MissingColon(lines_array[i])],
                    "Missing colon", "Add ':' at the end of the line")

\* variant of DefaultIssue: the default issue gets the severity INFO
DefaultIssueInfo(found, suggestion) ==
    IF Len(found) = 0
    THEN <<Issue(1, "Consider adding error handling", "INFO", suggestion,
                 "best_practice")>>
    ELSE found

\* variant of DefaultIssue: no default issue is added
DefaultIssueOmitted(found, suggestion) == found

DefaultIssue(found, suggestion) ==
    IF Len(found) = 0
    THEN <<Issue(1, "Consider adding error handling", "LOW", suggestion,
                 "best_practice")>>
    ELSE found

getMockResponse(c) ==
    LET found ==
            PasswordIssue(c, "Use environment variables instead: password = os.getenv(PASSWORD)")
            \o DivZeroIssue(c, "Check denominator before division: if denominator != 0:")
            \o UnclosedStringIssues(c)
            \o MissingColonIssues(c)
    IN  Report(DefaultIssue(found, "Add try-except blocks for better error handling"), c)

-----------------------------------------------------------------------------
(* getMockResponse, App.jsx: the copy the App component calls *)

App_getMockResponse(c) ==
    LET found ==
            PasswordIssue(c, "Use environment variables instead: password = os.getenv(PASSWORD)")
            \o DivZeroIssue(c, "Check denominator before division")
    IN  Report(DefaultIssue(found, "Add try-catch blocks"), c)

-----------------------------------------------------------------------------
(* reviewCode of the generated services/api.js: the report it returns    *)
(* when the backend is unavailable                                        *)

reviewCodeFallback ==
    [issues |->
        <<Issue(1, "Hardcoded password detected", "HIGH",
                "Use environment variables instead", "security"),
          Issue(3, "Division by zero", "HIGH",
                "Check denominator before division", "bug")>>,
     summary |->
        [total_issues |-> 2,
         by_severity |-> [HIGH |-> 2, MEDIUM |-> 0, LOW |-> 0],
         by_category |-> [security |-> 1, bug |-> 1]],
     language |-> "python",
     stats |-> [total_lines |-> 10, code_lines |-> 8, functions |-> 2,
                characters |-> 250]]

-----------------------------------------------------------------------------
(* detectLanguage, FileUploader.jsx *)

PatFunction == <<"f", "u", "n", "c", "t", "i", "o", "n", " ">>

PatArrow == <<"=", ">">>

PatPublicClass == <<"p", "u", "b", "l", "i", "c", " ", "c", "l", "a", "s", "s">>

PatInclude == <<"#", "i", "n", "c", "l", "u", "d", "e">>

PatPhp == <<"<", "?", "p", "h", "p">>

PatPackageMain == <<"p", "a", "c", "k", "a", "g", "e", " ", "m", "a", "i", "n">>

ExtPy == <<"p", "y">>

ExtJs == <<"j", "s">>

ExtJava == <<"j", "a", "v", "a">>

ExtCpp == <<"c", "p", "p">>

ExtPhp == <<"p", "h", "p">>

ExtGo == <<"g", "o">>

ExtTxt == <<"t", "x", "t">>

\* the content heuristics, tried in this order; 'txt' when none matches
detectLanguage(c) ==
    IF Includes(c, PatDef) /\ Includes(c, PatColon) THEN ExtPy
    ELSE IF Includes(c, PatFunction) \/ Includes(c, PatArrow) THEN ExtJs
    ELSE IF Includes(c, PatPublicClass) THEN ExtJava
    ELSE IF Includes(c, PatInclude) THEN ExtCpp
    ELSE IF Includes(c, PatPhp) THEN ExtPhp
    ELSE IF Includes(c, PatPackageMain) THEN ExtGo
    ELSE ExtTxt

-----------------------------------------------------------------------------
(* Nullable React state: null, or a value *)

Null == <<>>
Some(x) == <<x>>

-----------------------------------------------------------------------------
(* App component, App.jsx *)

\* response.json() of a 2xx answer: a report, or JSON null
JsonNull == [json |-> "null"]
BackendReport ==
    [issues |-> <<>>,
     summary |-> [total_issues |-> 0,
                  by_severity |-> [HIGH |-> 0, MEDIUM |-> 0, LOW |-> 0],
                  by_category |-> EmptyObject],
     stats |-> [total_lines |-> 1, code_lines |-> 1, functions |-> 0,
                characters |-> 1],
     language |-> "javascript"]

\* how the request to the backend can end: a 2xx answer with a report or with
\* null as its JSON body, a 2xx answer whose body is not JSON, a non-2xx
\* answer, a rejected fetch
BackendOutcomes ==
    {"ok_report", "ok_null", "bad_json", "not_ok", "network_error"}

\* a settled promise
Fulfilled(v) == [state |-> "fulfilled", value |-> v]
Rejected(e) == [state |-> "rejected", value |-> [error |-> e]]

\* the try block `await fetch(...); if (!response.ok) throw ...;
\* return await response.json()`: the value it returns, or what it throws
FetchJson(outcome, failed) ==
    CASE outcome = "ok_report" -> [thrown |-> FALSE, value |-> BackendReport]
      [] outcome = "ok_null" -> [thrown |-> FALSE, value |-> JsonNull]
      [] outcome = "bad_json" -> [thrown |-> TRUE, value |-> "SyntaxError"]
      [] outcome = "not_ok" -> [thrown |-> TRUE, value |-> failed]
      [] OTHER -> [thrown |-> TRUE, value |-> "TypeError: Failed to fetch"]

\* const handleCodeLoaded = (loadedCode, loadedFilename) => { ... }
handleCodeLoaded(loadedCode, loadedFilename) ==
    /\ code' = loadedCode
    /\ filename' = loadedFilename
    /\ issues' = <<>>
    /\ summary' = Null
    /\ stats' = Null
    /\ UNCHANGED <<language, loading, pending, alerts>>

\* more than 10MB of text
HugeText == <<Chunk, "x">>

\* what FileUploader passes to onCodeLoaded(content, name) at its four call
\* sites: a file read, the textarea's text, a fetched file, ('', '') on Clear
Loadable ==
    {<<<<>>, <<>>>>,
     <<LineBlank, <<"p", "a", "s", "t", "e", "d", "_", "c", "o", "d", "e", ".", "t", "x", "t">>>>,
     <<HugeText, <<"p", "a", "s", "t", "e", "d", "_", "c", "o", "d", "e", ".", "t", "x", "t">>>>,
     <<LineDivZero, <<"m", "a", "i", "n", ".", "p", "y">>>>,
     <<LineDivZero, <<"a", ".", "p", "y">>>>,
     <<LineDivZero, <<"1">>>>}

\* FileUploader calls onCodeLoaded: the App component seen from its props,
\* whatever FileUploader does
CodeLoaded ==
    /\ \E p \in Loadable : handleCodeLoaded(p[1], p[2])
    /\ UNCHANGED <<uploaderVars, currentPage, analysisVars>>

\* variant of ReviewButtonEnabled: the button is not disabled while loading
ReviewButtonNeverDisabled == currentPage = "review" /\ code # <<>>

\* the review button is rendered on the review page only when code is
\* truthy, and is disabled while loading
ReviewButtonEnabled == currentPage = "review" /\ code # <<>> /\ ~loading

\* variant of handleReview: setLoading(true) moved above the empty-input check
handleReviewLoadingFirst ==
    IF Trim(code) = <<>>
    THEN /\ loading' = TRUE
         /\ alerts' = Append(alerts, "Please enter code first")
         /\ UNCHANGED <<code, filename, language, issues, summary, stats,
                        pending>>
    ELSE /\ loading' = TRUE
         /\ pending' = Append(pending, [code |-> code, filename |-> filename,
                                        pc |-> "timer"])
         /\ UNCHANGED <<code, filename, language, issues, summary, stats,
                        alerts>>

\* handleReview up to its first await: the empty-input alert, or
\* setLoading(true) and the 1500 ms timer
handleReview ==
    IF Trim(code) = <<>>
    THEN /\ alerts' = Append(alerts, "Please enter code first")
         /\ UNCHANGED <<code, filename, language, issues, summary, stats,
                        loading, pending>>
    ELSE /\ loading' = TRUE
         /\ pending' = Append(pending, [code |-> code, filename |-> filename,
                                        pc |-> "timer"])
         /\ UNCHANGED <<code, filename, language, issues, summary, stats,
                        alerts>>

ClickReview ==
    /\ ReviewButtonEnabled
    /\ (Trim(code) = <<>> => Len(alerts) < MaxAlerts)
    /\ handleReview
    /\ UNCHANGED uploaderVars
    /\ UNCHANGED <<currentPage, analysisVars>>

\* the timer resolves and handleReview calls reviewCode(code, filename)
TimerFires ==
    /\ \E k \in 1..Len(pending) :
          /\ pending[k].pc = "timer"
          /\ pending' = [pending EXCEPT ![k].pc = "fetch"]
    /\ UNCHANGED <<code, filename, language, issues, summary, stats, loading,
                   alerts>>
    /\ UNCHANGED uploaderVars
    /\ UNCHANGED <<currentPage, analysisVars>>

\* reviewCode, App.jsx: resolves to the backend's JSON when the try block
\* returns, to the local report when it throws
reviewCode(c, outcome) ==
    LET try == FetchJson(outcome, "Review failed")
    IN  IF try.thrown THEN Fulfilled(App_getMockResponse(c))
        ELSE Fulfilled(try.value)

RemoveAt(s, k) == SubSeq(s, 1, k - 1) \o SubSeq(s, k + 1, Len(s))

\* variant of ReviewReturns: setLoading(false) at the end of the try block
\* instead of in finally
ReviewReturnsNoFinally ==
    /\ \E k \in 1..Len(pending), outcome \in BackendOutcomes :
          /\ pending[k].pc = "fetch"
          /\ (outcome = "ok_null" => Len(alerts) < MaxAlerts)
          /\ LET settled == reviewCode(pending[k].code, outcome)
                 result == settled.value
             IN  IF settled.state = "rejected" \/ result = JsonNull
                 THEN /\ alerts' = Append(alerts, "Error analyzing code")
                      /\ UNCHANGED <<issues, summary, stats, language, loading>>
                 ELSE /\ issues' = result.issues
                      /\ summary' = Some(result.summary)
                      /\ stats' = Some(result.stats)
                      /\ language' = result.language
                      /\ loading' = FALSE
                      /\ UNCHANGED alerts
          /\ pending' = RemoveAt(pending, k)
    /\ UNCHANGED <<code, filename>>
    /\ UNCHANGED uploaderVars
    /\ UNCHANGED <<currentPage, analysisVars>>

\* handleReview after `await reviewCode(...)`: store the result, or alert
\* when the await or reading result.issues throws; finally setLoading(false)
ReviewReturns ==
    /\ \E k \in 1..Len(pending), outcome \in BackendOutcomes :
          /\ pending[k].pc = "fetch"
          /\ (outcome = "ok_null" => Len(alerts) < MaxAlerts)
          /\ LET settled == reviewCode(pending[k].code, outcome)
                 result == settled.value
             IN  IF settled.state = "rejected" \/ result = JsonNull
                 THEN /\ alerts' = Append(alerts, "Error analyzing code")
                      /\ UNCHANGED <<issues, summary, stats, language>>
                 ELSE /\ issues' = result.issues
                      /\ summary' = Some(result.summary)
                      /\ stats' = Some(result.stats)
                      /\ language' = result.language
                      /\ UNCHANGED alerts
          /\ pending' = RemoveAt(pending, k)
    /\ loading' = FALSE
    /\ UNCHANGED <<code, filename>>
    /\ UNCHANGED uploaderVars
    /\ UNCHANGED <<currentPage, analysisVars>>

-----------------------------------------------------------------------------
(* services/api.js: reviewCode, uploadFile, fetchFromGithub; reviewCode of  *)
(* the generated services/api.js                                           *)

\* variant of Spread: the spread object is left out
SpreadLeftOut(obj, more) == obj

\* { ...obj, ...more }: the keys of both, `more` winning where both have one
Spread(obj, more) ==
    [k \in (DOMAIN obj) \cup (DOMAIN more) |->
        IF k \in DOMAIN more THEN more[k] ELSE obj[k]]

\* variant of api_reviewCode: `return response.json()` without the await, so
\* that a body that is not JSON rejects outside the try block
api_reviewCodeUnawaited(c, outcome) ==
    LET try == FetchJson(outcome, "Review failed")
    IN  IF outcome = "bad_json" THEN Rejected(try.value)
        ELSE IF try.thrown THEN Fulfilled(getMockResponse(c))
        ELSE Fulfilled(try.value)

\* variant of api_reviewCode: a non-2xx answer falls back to the hard-coded
\* report, a rejected fetch to getMockResponse
api_reviewCodeTwoFallbacks(c, outcome) ==
    LET try == FetchJson(outcome, "Review failed")
    IN  IF outcome = "not_ok" THEN Fulfilled(reviewCodeFallback)
        ELSE IF try.thrown THEN Fulfilled(getMockResponse(c))
        ELSE Fulfilled(try.value)

\* reviewCode, services/api.js
api_reviewCode(c, outcome) ==
    LET try == FetchJson(outcome, "Review failed")
    IN  IF try.thrown THEN Fulfilled(getMockResponse(c))
        ELSE Fulfilled(try.value)

\* reviewCode of the generated services/api.js
script_reviewCode(c, outcome) ==
    LET try == FetchJson(outcome, "Review failed: status")
    IN  IF try.thrown THEN Fulfilled(reviewCodeFallback)
        ELSE Fulfilled(try.value)

\* a promise that never settles
NeverSettled == [state |-> "pending", value |-> [error |-> "none"]]

\* how the FileReader of uploadFile's fallback can end
ReadOutcomes == {"load", "error"}

\* uploadFile, services/api.js, for a file with the given text: the backend's
\* JSON, or { code, ...getMockResponse(code) } once the FileReader has loaded
\* the file; the fallback promise has no reader.onerror and no reject
uploadFile(text, outcome, read) ==
    LET try == FetchJson(outcome, "Upload failed")
    IN  IF ~try.thrown THEN Fulfilled(try.value)
        ELSE IF read = "load"
             THEN Fulfilled(Spread([code |-> text], getMockResponse(text)))
             ELSE NeverSettled

UrlBlob ==
    <<"h", "t", "t", "p", "s", ":", "/", "/", "g", "i", "t", "h", "u", "b", ".", "c", "o", "m", "/", "u", "/", "r", "/", "b", "l", "o", "b", "/", "m", "a", "i", "n", "/", "a", ".", "p", "y">>

UrlRaw ==
    <<"h", "t", "t", "p", "s", ":", "/", "/", "r", "a", "w", ".", "g", "i", "t", "h", "u", "b", "u", "s", "e", "r", "c", "o", "n", "t", "e", "n", "t", ".", "c", "o", "m", "/", "u", "/", "r", "/", "m", "a", "i", "n", "/", "b", ".", "j", "s">>

UrlDir ==
    <<"h", "t", "t", "p", "s", ":", "/", "/", "g", "i", "t", "h", "u", "b", ".", "c", "o", "m", "/", "u", "/", "r", "/">>

DefaultGithubName == <<"g", "i", "t", "h", "u", "b", "_", "c", "o", "d", "e", ".", "p", "y">>

GithubUrls == {UrlBlob, UrlRaw, UrlDir}

\* url.split('/').pop(): what follows the last '/'
LastSegment(url) ==
    LET slashes == {i \in 1..Len(url) : url[i] = "/"}
    IN  IF slashes = {} THEN url
        ELSE SubSeq(url, (CHOOSE i \in slashes : \A j \in slashes : j <= i) + 1,
                    Len(url))

\* how the fetch of fetchFromGithub can end
GithubOutcomes == {"ok", "not_ok", "network_error"}

\* fetchFromGithub, services/api.js, when the URL serves `text`:
\* { code, filename, ...getMockResponse(code) }, or the error rethrown
fetchFromGithub(url, text, outcome) ==
    IF outcome = "ok"
    THEN LET name == LastSegment(url)
         IN  Fulfilled(Spread([code |-> text,
                               filename |-> IF name # <<>> THEN name
                                            ELSE DefaultGithubName],
                              getMockResponse(text)))
    ELSE IF outcome = "not_ok" THEN Rejected("Failed to fetch from GitHub")
    ELSE Rejected("TypeError: Failed to fetch")

\* the code strings the service functions are called on
ServiceCodes ==
    {<<>>, LinePlain, LineDivZero, LineUnclosed,
     Join(<<LinePasswordWord, LineDivZero>>)}

Call(fn, url, outcome, read, settled) ==
    [fn |-> fn, url |-> url, outcome |-> outcome, read |-> read,
     state |-> settled.state, value |-> settled.value]

\* reviewCode(src) is called and settles
CallReviewCode ==
    /\ Len(promise) < MaxCalls
    /\ \E outcome \in BackendOutcomes :
          \/ promise' = Append(promise,
                 Call("api_reviewCode", <<>>, outcome, "none",
                      api_reviewCode(src, outcome)))
          \/ promise' = Append(promise,
                 Call("reviewCode", <<>>, outcome, "none",
                      reviewCode(src, outcome)))
          \/ promise' = Append(promise,
                 Call("script_reviewCode", <<>>, outcome, "none",
                      script_reviewCode(src, outcome)))
    /\ UNCHANGED <<src, gen, returned, appVars>>

\* uploadFile(file) is called for a file whose text is src
CallUploadFile ==
    /\ Len(promise) < MaxCalls
    /\ \E outcome \in BackendOutcomes, read \in ReadOutcomes :
          promise' = Append(promise,
              Call("uploadFile", <<>>, outcome, read,
                   uploadFile(src, outcome, read)))
    /\ UNCHANGED <<src, gen, returned, appVars>>

\* fetchFromGithub(url) is called for a URL that serves src
CallFetchFromGithub ==
    /\ Len(promise) < MaxCalls
    /\ \E url \in GithubUrls, outcome \in GithubOutcomes :
          promise' = Append(promise,
              Call("fetchFromGithub", url, outcome, "none",
                   fetchFromGithub(url, src, outcome)))
    /\ UNCHANGED <<src, gen, returned, appVars>>

-----------------------------------------------------------------------------
(* FileUploader component, FileUploader.jsx *)

validExtensions ==
    <<<<".", "p", "y">>,
      <<".", "j", "s">>,
      <<".", "j", "a", "v", "a">>,
      <<".", "c", "p", "p">>,
      <<".", "c">>,
      <<".", "c", "s">>,
      <<".", "p", "h", "p">>,
      <<".", "r", "b">>,
      <<".", "g", "o">>,
      <<".", "r", "s">>,
      <<".", "s", "w", "i", "f", "t">>,
      <<".", "k", "t">>,
      <<".", "t", "s">>,
      <<".", "t", "s", "x">>,
      <<".", "j", "s", "x">>,
      <<".", "h", "t", "m", "l">>,
      <<".", "c", "s", "s">>,
      <<".", "j", "s", "o", "n">>,
      <<".", "x", "m", "l">>>>

\* 10 * 1024 * 1024, the largest file.size processFile accepts
MaxFileSize == 10 * 1024 * 1024

\* the values of the error state; the file-type message carries ${ext}
NoError == [msg |-> "", ext |-> <<>>]
ErrorFileType(ext) ==
    [msg |-> "File type ${ext} not supported. Please upload a code file.",
     ext |-> ext]
ErrorTooLarge == [msg |-> "File too large. Maximum size is 10MB.", ext |-> <<>>]
ErrorRead == [msg |-> "Failed to read file. Please try again.", ext |-> <<>>]
ErrorNoUrl == [msg |-> "Please enter a GitHub URL", ext |-> <<>>]
ErrorGist ==
    [msg |-> "Please use the \"Raw\" button on the gist and paste that URL",
     ext |-> <<>>]
ErrorFetch == [msg |-> "Failed to fetch from GitHub: ${error.message}", ext |-> <<>>]

\* a File: its name and its text; the text is ASCII, so file.size is its length
File(name, content) == [name |-> name, content |-> content]
FileSize(file) == Length(file.content)

\* the files the user picks or drops: accepted, header file, too large
Files ==
    {File(<<"m", "a", "i", "n", ".", "p", "y">>, LineDivZero),
     File(<<"u", "t", "i", "l", ".", "h">>, LinePlain),
     File(<<"b", "i", "g", ".", "j", "s">>, HugeText)}

\* the values the user gives the textarea: whitespace only, larger than 10MB
PasteTexts == {LineBlank, HugeText}

UrlGist == <<"h", "t", "t", "p", "s", ":", "/", "/", "g", "i", "s", "t", ".", "g", "i", "t", "h", "u", "b", ".", "c", "o", "m", "/", "u", "/", "1">>

\* the values the user gives the URL input: a file page, a gist
UrlInputs == {UrlBlob, UrlGist}

\* response.text() of the raw file
GithubTexts == {LineDivZero}

\* file.name.substring(file.name.lastIndexOf('.')).toLowerCase()
Ext(name) == ToLowerCase(Substring(name, LastIndexOf(name, ".")))

\* variant of processFile: a file that is too large is reported and read
\* all the same
processFileReadsTooLarge(file) ==
    IF ~ArrayIncludes(validExtensions, Ext(file.name))
    THEN [error |-> Some(ErrorFileType(Ext(file.name))), read |-> FALSE]
    ELSE IF FileSize(file) > MaxFileSize
    THEN [error |-> Some(ErrorTooLarge), read |-> TRUE]
    ELSE [error |-> Null, read |-> TRUE]

\* processFile up to reader.readAsText: the error it sets (Null when it sets
\* none) and whether it starts the read
processFile(file) ==
    IF ~ArrayIncludes(validExtensions, Ext(file.name))
    THEN [error |-> Some(ErrorFileType(Ext(file.name))), read |-> FALSE]
    ELSE IF FileSize(file) > MaxFileSize
    THEN [error |-> Some(ErrorTooLarge), read |-> FALSE]
    ELSE [error |-> Null, read |-> TRUE]

\* a read or a fetch in flight: what it was started on, and whether the
\* FileUploader that started it is still mounted (the state setters of an
\* unmounted component do nothing)
Started(x) == [on |-> x, mounted |-> TRUE]

\* handleFileChange / handleDrop: setError('') and processFile(file)
handleFileChange(file) ==
    LET done == processFile(file)
    IN  /\ error' = IF done.error = Null THEN NoError ELSE done.error[1]
        /\ reads' = IF done.read THEN Append(reads, Started(file)) ELSE reads
        /\ UNCHANGED <<fileName, uploaderCode, githubUrl, uploaderLoading,
                       fetches>>
        /\ UNCHANGED <<code, filename, reviewVars>>

\* FileUploader is rendered on the review page
Mounted == currentPage = "review"

\* the dropzone and the tabs are rendered while code is empty
InputShown == Mounted /\ uploaderCode = <<>>

\* file reads and fetches that have not called back yet
InFlight == Len(reads) + Len(fetches)

\* the user picks or drops a file
SelectFile ==
    /\ InputShown
    /\ InFlight < MaxInFlight
    /\ \E file \in Files : handleFileChange(file)
    /\ UNCHANGED <<currentPage, analysisVars>>

\* reader.onload
FileLoaded ==
    /\ \E k \in 1..Len(reads) :
          LET file == reads[k].on
          IN  /\ IF reads[k].mounted
                 THEN /\ fileName' = file.name
                      /\ uploaderCode' = file.content
                      /\ error' = NoError
                 ELSE UNCHANGED <<fileName, uploaderCode, error>>
              /\ handleCodeLoaded(file.content, file.name)
              /\ reads' = RemoveAt(reads, k)
    /\ UNCHANGED <<githubUrl, uploaderLoading, fetches>>
    /\ UNCHANGED <<currentPage, analysisVars>>

\* reader.onerror
FileReadFails ==
    /\ \E k \in 1..Len(reads) :
          /\ reads' = RemoveAt(reads, k)
          /\ error' = IF reads[k].mounted THEN ErrorRead ELSE error
    /\ UNCHANGED <<fileName, uploaderCode, githubUrl, uploaderLoading, fetches>>
    /\ UNCHANGED <<code, filename, reviewVars>>
    /\ UNCHANGED <<currentPage, analysisVars>>

PastedName == <<"p", "a", "s", "t", "e", "d", "_", "c", "o", "d", "e", ".">>

\* const handlePasteChange = (e) => { ... }
handlePasteChange(pastedCode) ==
    LET name == PastedName \o detectLanguage(pastedCode)
    IN  /\ uploaderCode' = pastedCode
        /\ error' = NoError
        /\ fileName' = name
        /\ handleCodeLoaded(pastedCode, name)
        /\ UNCHANGED <<githubUrl, uploaderLoading, reads, fetches>>

\* the user changes the text of the paste textarea or of the textarea that
\* shows the loaded code
PasteChange ==
    /\ Mounted
    /\ \E text \in PasteTexts \ {uploaderCode} : handlePasteChange(text)
    /\ UNCHANGED <<currentPage, analysisVars>>

\* handleClear, behind the Clear button of the loaded-code view
handleClear ==
    /\ fileName' = <<>>
    /\ uploaderCode' = <<>>
    /\ githubUrl' = <<>>
    /\ error' = NoError
    /\ handleCodeLoaded(<<>>, <<>>)
    /\ UNCHANGED <<uploaderLoading, reads, fetches>>

Clear ==
    /\ Mounted
    /\ uploaderCode # <<>>
    /\ handleClear
    /\ UNCHANGED <<currentPage, analysisVars>>

\* onChange of the URL input
SetGithubUrl ==
    /\ InputShown
    /\ \E url \in UrlInputs \ {githubUrl} : githubUrl' = url
    /\ UNCHANGED <<fileName, uploaderCode, uploaderLoading, error, reads,
                   fetches>>
    /\ UNCHANGED <<code, filename, reviewVars>>
    /\ UNCHANGED <<currentPage, analysisVars>>

GithubHost == <<"g", "i", "t", "h", "u", "b", ".", "c", "o", "m">>
RawHost == <<"r", "a", "w", ".", "g", "i", "t", "h", "u", "b", "u", "s", "e", "r", "c", "o", "n", "t", "e", "n", "t", ".", "c", "o", "m">>
BlobPath == <<"/", "b", "l", "o", "b", "/">>
GistHost == <<"g", "i", "s", "t", ".", "g", "i", "t", "h", "u", "b", ".", "c", "o", "m">>

\* the rawUrl handleGithubFetch fetches
RawUrl(url) ==
    IF Includes(Trim(url), GithubHost) /\ ~Includes(Trim(url), RawHost)
    THEN Replace(Replace(Trim(url), GithubHost, RawHost), BlobPath, <<"/">>)
    ELSE Trim(url)

\* handleGithubFetch up to `await fetch(rawUrl)`
handleGithubFetch ==
    IF Trim(githubUrl) = <<>>
    THEN /\ error' = ErrorNoUrl
         /\ UNCHANGED <<uploaderLoading, fetches>>
    ELSE IF Includes(RawUrl(githubUrl), GistHost)
    THEN /\ error' = ErrorGist
         /\ uploaderLoading' = FALSE
         /\ UNCHANGED fetches
    ELSE /\ error' = NoError
         /\ uploaderLoading' = TRUE
         /\ fetches' = Append(fetches, Started(githubUrl))

\* the Fetch button (disabled while loading) is clicked, or Enter is pressed
\* in the URL input
GithubFetch ==
    /\ InputShown
    /\ InFlight < MaxInFlight
    /\ handleGithubFetch
    /\ UNCHANGED <<fileName, uploaderCode, githubUrl, reads>>
    /\ UNCHANGED <<code, filename, reviewVars>>
    /\ UNCHANGED <<currentPage, analysisVars>>

\* handleGithubFetch after `await fetch(rawUrl)`: load the text, or set the
\* error; finally setLoading(false)
GithubReturns ==
    /\ \E k \in 1..Len(fetches), outcome \in GithubOutcomes,
          content \in GithubTexts :
          /\ IF outcome = "ok"
             THEN LET last == LastSegment(fetches[k].on)
                      name == IF last # <<>> THEN last ELSE DefaultGithubName
                  IN  /\ IF fetches[k].mounted
                         THEN /\ uploaderCode' = content
                              /\ fileName' = name
                              /\ error' = NoError
                         ELSE UNCHANGED <<fileName, uploaderCode, error>>
                      /\ handleCodeLoaded(content, name)
             ELSE /\ error' = IF fetches[k].mounted THEN ErrorFetch ELSE error
                  /\ UNCHANGED <<fileName, uploaderCode>>
                  /\ UNCHANGED <<code, filename, reviewVars>>
          /\ uploaderLoading' = IF fetches[k].mounted THEN FALSE
                                ELSE uploaderLoading
          /\ fetches' = RemoveAt(fetches, k)
    /\ UNCHANGED <<githubUrl, reads>>
    /\ UNCHANGED <<currentPage, analysisVars>>

\* the reads and fetches of a FileUploader that is unmounted
Orphaned(inflight) ==
    [k \in 1..Len(inflight) |-> [inflight[k] EXCEPT !.mounted = FALSE]]

\* handleNavigation, App.jsx, called by the Navbar links: the review page
\* renders FileUploader, the docs page does not, so leaving the review page
\* unmounts it and coming back mounts a new one in its initial state
handleNavigation(page) ==
    /\ currentPage' = page
    /\ fileName' = <<>>
    /\ uploaderCode' = <<>>
    /\ githubUrl' = <<>>
    /\ uploaderLoading' = FALSE
    /\ error' = NoError
    /\ reads' = Orphaned(reads)
    /\ fetches' = Orphaned(fetches)
    /\ UNCHANGED <<code, filename, reviewVars>>

Navigate ==
    /\ \E page \in {"review", "docs"} \ {currentPage} : handleNavigation(page)
    /\ UNCHANGED analysisVars

-----------------------------------------------------------------------------
(* Running the report generators on a code string *)

\* getMockResponse(code) of services/api.js returns
CallApiMock ==
    /\ gen = "none"
    /\ gen' = "api"
    /\ returned' = {getMockResponse(src)}
    /\ UNCHANGED <<src, promise, appVars>>

\* getMockResponse(code) of App.jsx returns
CallAppMock ==
    /\ gen = "none"
    /\ gen' = "app"
    /\ returned' = {App_getMockResponse(src)}
    /\ UNCHANGED <<src, promise, appVars>>

\* reviewCode of the generated services/api.js returns its fallback
CallScriptFallback ==
    /\ gen = "none"
    /\ gen' = "script"
    /\ returned' = {reviewCodeFallback}
    /\ UNCHANGED <<src, promise, appVars>>

-----------------------------------------------------------------------------
(* Specifications *)

AppInit ==
    /\ code = <<>>
    /\ filename = <<>>
    /\ language = ""
    /\ issues = <<>>
    /\ summary = Null
    /\ stats = Null
    /\ loading = FALSE
    /\ pending = <<>>
    /\ alerts = <<>>
    /\ fileName = <<>>
    /\ uploaderCode = <<>>
    /\ githubUrl = <<>>
    /\ uploaderLoading = FALSE
    /\ error = NoError
    /\ reads = <<>>
    /\ fetches = <<>>
    /\ currentPage = "review"

AnalysisIdle ==
    /\ src = <<>>
    /\ gen = "none"
    /\ returned = {}
    /\ promise = <<>>

\* the App component after mounting
Init == AppInit /\ AnalysisIdle

Next ==
    \/ SelectFile \/ FileLoaded \/ FileReadFails
    \/ PasteChange \/ Clear
    \/ SetGithubUrl \/ GithubFetch \/ GithubReturns
    \/ ClickReview \/ TimerFires \/ ReviewReturns
    \/ Navigate

Spec == Init /\ [][Next]_vars

\* the App component alone: FileUploader is any caller of onCodeLoaded
NextApp ==
    \/ CodeLoaded
    \/ ClickReview \/ TimerFires \/ ReviewReturns
    \/ Navigate

SpecApp == Init /\ [][NextApp]_vars

\* the App component with a timer that fires and a request to the backend
\* that ends
SpecAppLive == SpecApp /\ WF_vars(TimerFires) /\ WF_vars(ReviewReturns)

\* the FileUploader component alone, with the App that mounts it: no review
\* is started
NextUploader ==
    \/ SelectFile \/ FileLoaded \/ FileReadFails
    \/ PasteChange \/ Clear
    \/ SetGithubUrl \/ GithubFetch \/ GithubReturns
    \/ Navigate

SpecUploader == Init /\ [][NextUploader]_vars

\* a generator about to be called on any code string
InitAnalysis ==
    /\ src \in Codes
    /\ gen = "none"
    /\ returned = {}
    /\ promise = <<>>
    /\ AppInit

NextAnalysis == CallApiMock \/ CallAppMock \/ CallScriptFallback

SpecAnalysis == InitAnalysis /\ [][NextAnalysis]_vars

\* a service function about to be called on a code string
InitService ==
    /\ src \in ServiceCodes
    /\ gen = "none"
    /\ returned = {}
    /\ promise = <<>>
    /\ AppInit

NextService == CallReviewCode \/ CallUploadFile \/ CallFetchFromGithub

SpecService == InitService /\ [][NextService]_vars

-----------------------------------------------------------------------------
(* Properties of the locally produced reports (SpecAnalysis) *)

Lines(c) == Split(c)

LocalGenerator == gen \in {"api", "app"}

RECURSIVE SumValues(_)
SumValues(f) ==
    IF DOMAIN f = {} THEN 0
    ELSE LET k == CHOOSE x \in DOMAIN f : TRUE
         IN  f[k] + SumValues([j \in (DOMAIN f) \ {k} |-> f[j]])

HasIssue(r, line, category, severity) ==
    \E i \in DOMAIN r.issues :
        /\ r.issues[i].line = line
        /\ r.issues[i].category = category
        /\ r.issues[i].severity = severity

\* C1: every issue of a report of getMockResponse has
\* 1 <= line <= stats.total_lines
C1_IssueLinesInRange ==
    \A r \in returned :
        LocalGenerator =>
            \A i \in DOMAIN r.issues :
                /\ 1 <= r.issues[i].line
                /\ r.issues[i].line <= r.stats.total_lines

\* C2: summary.total_issues of the returned report equals the length of
\* its issue list
C2_TotalIssuesIsLength ==
    \A r \in returned : r.summary.total_issues = Len(r.issues)

C2_Witness ==
    \E r \in returned :
        /\ gen = "api"
        /\ Len(r.issues) >= 4
        /\ r.summary.total_issues >= 4

\* C3: the by_severity counts sum to total_issues, and so do the
\* by_category counts
C3_CountsSumToTotal ==
    \A r \in returned :
        /\ SumValues(r.summary.by_severity) = r.summary.total_issues
        /\ SumValues(r.summary.by_category) = r.summary.total_issues

C3_Witness ==
    \E r \in returned :
        /\ LocalGenerator
        /\ Cardinality(DOMAIN r.summary.by_category) >= 3
        /\ \E c \in DOMAIN r.summary.by_category : r.summary.by_category[c] >= 2

C5_SortedByLine ==
    \A r \in returned :
        LocalGenerator =>
            \A i \in 1..(Len(r.issues) - 1) :
                r.issues[i].line <= r.issues[i + 1].line

\* the condition of no rule of the generator holds for the code
NoRuleFires(c, g) ==
    /\ ~(Includes(c, PatPassword) /\ Includes(c, PatEquals))
    /\ ~(Includes(c, PatDivSpace) \/ Includes(c, PatDiv))
    /\ g = "api" =>
          LET ls == Lines(c)
          IN  \A i \in DOMAIN ls : ~UnclosedString(ls[i]) /\ ~MissingColon(ls[i])

StatsKeys == {"total_lines", "code_lines", "functions", "characters"}

\* C6 as claimed (Scenario F): code that matches no rule pattern gets
\* issues == [], total_issues == 0 and all severity and category counts zero
C6_ScenarioF_NoIssues ==
    \A r \in returned :
        (LocalGenerator /\ NoRuleFires(src, gen)) =>
            /\ r.issues = <<>>
            /\ r.summary.total_issues = 0
            /\ \A s \in DOMAIN r.summary.by_severity :
                   r.summary.by_severity[s] = 0
            /\ \A c \in DOMAIN r.summary.by_category :
                   r.summary.by_category[c] = 0

\* C6 as amended: code that matches no rule pattern gets exactly one issue,
\* the default one (line 1, LOW, best_practice); total_issues is 1, LOW is 1,
\* HIGH and MEDIUM are 0, by_category is {best_practice: 1}, and stats holds
\* total_lines, code_lines, functions and characters
C6_ScenarioF_DefaultIssue ==
    \A r \in returned :
        (LocalGenerator /\ NoRuleFires(src, gen)) =>
            /\ Len(r.issues) = 1
            /\ r.issues[1].line = 1
            /\ r.issues[1].severity = "LOW"
            /\ r.issues[1].category = "best_practice"
            /\ r.issues[1].problem = "Consider adding error handling"
            /\ r.summary.total_issues = 1
            /\ r.summary.by_severity = [HIGH |-> 0, MEDIUM |-> 0, LOW |-> 1]
            /\ r.summary.by_category = [best_practice |-> 1]
            /\ DOMAIN r.stats = StatsKeys
            /\ r.stats.total_lines = Len(Lines(src))
            /\ r.stats.characters = Len(src)

C6_Witness ==
    \E r \in returned :
        /\ gen = "api"
        /\ NoRuleFires(src, gen)
        /\ Len(Lines(src)) = MaxLines
        /\ \E i \in DOMAIN Lines(src) : Lines(src)[i] = LinePasswordWord
        /\ Len(r.issues) = 1

\* C7 (Scenario A): when line 5 of the input is `result = 10 / 0`, the
\* report has an issue with line 5, category bug, severity HIGH
C7_ScenarioA ==
    \A r \in returned :
        (LocalGenerator /\ Len(Lines(src)) >= 5 /\ Lines(src)[5] = LineDivZero)
            => HasIssue(r, 5, "bug", "HIGH")

\* C8 (Scenario B): when line 2 of the input is `password = "hunter2"`, the
\* report has an issue with line 2, category security, severity HIGH
C8_ScenarioB ==
    \A r \in returned :
        (LocalGenerator /\ Len(Lines(src)) >= 2 /\ Lines(src)[2] = LinePassword)
            => HasIssue(r, 2, "security", "HIGH")

\* C9 (Scenario C): when line 3 of the input is an unterminated string
\* literal, the report of either local generator has an issue with line 3,
\* category syntax, severity HIGH
C9_ScenarioC ==
    \A r \in returned :
        (LocalGenerator /\ Len(Lines(src)) >= 3 /\ Lines(src)[3] = LineUnclosed)
            => HasIssue(r, 3, "syntax", "HIGH")

\* C11 (Scenario E): for content that matches no language heuristic (the
\* generators take no filename), the report is returned and its language
\* field is `unknown`
C11_ScenarioE_LanguageUnknown ==
    \A r \in returned :
        (LocalGenerator /\ detectLanguage(src) = ExtTxt) =>
            r.language = "unknown"

\* the six metrics of the README's Detailed Metrics example
ReadmeStatsKeys ==
    {"total_lines", "code_lines", "functions", "classes", "characters",
     "complexity_score"}

\* C14: every locally produced report has a stats object with the six keys
\* total_lines, code_lines, functions, classes, characters, complexity_score
C14_StatsHasSixKeys ==
    \A r \in returned : LocalGenerator => DOMAIN r.stats = ReadmeStatsKeys

\* C17: stats.code_lines <= stats.total_lines and total_lines >= 1 for
\* every input, the empty string and single-line code included
C17_CodeLinesAtMostTotalLines ==
    \A r \in returned :
        /\ r.stats.code_lines <= r.stats.total_lines
        /\ r.stats.total_lines >= 1

C17_Witness ==
    \E r \in returned :
        /\ gen = "api"
        /\ src = <<>>
        /\ r.stats.total_lines = 1
        /\ r.stats.code_lines = 0

\* C19: every issue of every report has a category among bug, security,
\* best_practice, syntax and a severity among HIGH, MEDIUM, LOW
C19_CategoryAndSeverityInRange ==
    \A r \in returned :
        \A i \in DOMAIN r.issues :
            /\ r.issues[i].category \in Categories
            /\ r.issues[i].severity \in Severities

C19_Witness ==
    \E r \in returned :
        /\ gen = "api"
        /\ {r.issues[i].category : i \in DOMAIN r.issues} =
               {"security", "bug", "syntax"}
        /\ Len(r.issues) >= 4

\* the report has an issue with this problem text
HasProblem(r, problem) ==
    \E i \in DOMAIN r.issues : r.issues[i].problem = problem

HasProblemAt(r, problem, line) ==
    \E i \in DOMAIN r.issues :
        r.issues[i].problem = problem /\ r.issues[i].line = line

\* the pattern rules emit exactly when their own condition holds for the code
PatternRulesIndependent(r) ==
    /\ HasProblem(r, "Hardcoded password detected") <=>
          (Includes(src, PatPassword) /\ Includes(src, PatEquals))
    /\ HasProblem(r, "Division by zero") <=>
          (Includes(src, PatDivSpace) \/ Includes(src, PatDiv))
    /\ LET ls == Lines(src)
       IN  \A i \in DOMAIN ls :
              /\ HasProblemAt(r, "Unclosed string", i) <=>
                    (gen = "api" /\ UnclosedString(ls[i]))
              /\ HasProblemAt(r, "Missing colon", i) <=>
                    (gen = "api" /\ MissingColon(ls[i]))

\* C21 as claimed: every rule of getMockResponse, the closing default rule
\* included, emits in the report what it emits when run on the code alone,
\* whatever the other rules emitted
C21_RulesIndependent ==
    \A r \in returned :
        LocalGenerator =>
            /\ PatternRulesIndependent(r)
            /\ HasProblem(r, "Consider adding error handling") <=>
                  HasProblem([issues |-> DefaultIssue(<<>>, "")],
                             "Consider adding error handling")

\* C21 as amended: the pattern rules emit exactly when their own condition
\* holds for the code, whatever the other rules emitted; the default issue
\* is emitted exactly when no pattern rule emitted one
C21_PatternRulesIndependent ==
    \A r \in returned :
        LocalGenerator =>
            /\ PatternRulesIndependent(r)
            /\ HasProblem(r, "Consider adding error handling") <=>
                  NoRuleFires(src, gen)

C21_Witness ==
    \E r \in returned :
        /\ gen = "api"
        /\ HasProblem(r, "Hardcoded password detected")
        /\ HasProblem(r, "Division by zero")
        /\ HasProblem(r, "Unclosed string")
        /\ ~HasProblem(r, "Consider adding error handling")

-----------------------------------------------------------------------------
(* Properties of the service functions (SpecService) *)

ReviewFunctions == {"api_reviewCode", "reviewCode", "script_reviewCode"}

\* the backend outcomes on which the try block throws
FailureOutcomes == {"bad_json", "not_ok", "network_error"}

ReportFields == {"issues", "summary", "stats", "language"}

\* the call produced its report locally
LocalPath(p) ==
    \/ p.fn \in ReviewFunctions /\ p.outcome \in FailureOutcomes
    \/ p.fn = "uploadFile" /\ p.outcome \in FailureOutcomes /\ p.read = "load"
    \/ p.fn = "fetchFromGithub" /\ p.outcome = "ok"

\* C13: the promise of reviewCode never rejects, and on a network error, a
\* non-2xx status or an unparseable body it resolves to a report with issues,
\* summary, stats and language
C13_ReviewCodeAlwaysResolves ==
    \A i \in DOMAIN promise :
        promise[i].fn \in ReviewFunctions =>
            /\ promise[i].state = "fulfilled"
            /\ promise[i].outcome \in FailureOutcomes =>
                  ReportFields \subseteq DOMAIN promise[i].value

C13_Witness ==
    \E i \in DOMAIN promise :
        /\ promise[i].fn = "api_reviewCode"
        /\ promise[i].outcome = "bad_json"
        /\ promise[i].state = "fulfilled"
        /\ Len(promise[i].value.issues) >= 2

\* C15: every report of a local path has the four fields issues, summary,
\* stats, language; the fallback of uploadFile and the result of
\* fetchFromGithub add code (and filename) and keep the four fields of
\* getMockResponse as they are
C15_LocalReportsHaveFourFields ==
    \A i \in DOMAIN promise :
        LocalPath(promise[i]) =>
            /\ ReportFields \subseteq DOMAIN promise[i].value
            /\ promise[i].fn \in {"uploadFile", "fetchFromGithub"} =>
                  /\ promise[i].value.code = src
                  /\ \A f \in ReportFields :
                         promise[i].value[f] = getMockResponse(src)[f]
            /\ promise[i].fn = "fetchFromGithub" =>
                  promise[i].value.filename \in
                      {LastSegment(promise[i].url), DefaultGithubName} \ {<<>>}

C15_Witness ==
    /\ Len(promise) = 2
    /\ promise[1].fn = "uploadFile" /\ LocalPath(promise[1])
    /\ promise[2].fn = "fetchFromGithub" /\ LocalPath(promise[2])
    /\ promise[2].value.filename = DefaultGithubName
    /\ src # <<>>

C30_UploadFileSettles ==
    \A i \in DOMAIN promise :
        promise[i].fn = "uploadFile" =>
            promise[i].state \in {"fulfilled", "rejected"}

-----------------------------------------------------------------------------
(* Properties of the App component (Spec) *)

\* C10 (Scenario D): handleReview on empty or whitespace-only code shows the
\* error and returns: no review is started, and loading, issues, summary,
\* stats and language keep their values
C10_EmptyCodeRejected ==
    [][(ClickReview /\ Trim(code) = <<>>) =>
          /\ alerts' = Append(alerts, "Please enter code first")
          /\ pending' = pending
          /\ UNCHANGED <<loading, issues, summary, stats, language>>]_vars

C10_Witness ==
    /\ code # <<>>
    /\ Trim(code) = <<>>
    /\ alerts # <<>>
    /\ alerts[Len(alerts)] = "Please enter code first"
    /\ pending = <<>>
    /\ ~loading


\* the extensions of the README's Multi-Language Support table
ReadmeExtensions ==
    <<<<".", "p", "y">>,
      <<".", "j", "s">>,
      <<".", "j", "s", "x">>,
      <<".", "t", "s">>,
      <<".", "t", "s", "x">>,
      <<".", "j", "a", "v", "a">>,
      <<".", "c", "p", "p">>,
      <<".", "c">>,
      <<".", "h">>,
      <<".", "c", "s">>,
      <<".", "p", "h", "p">>,
      <<".", "r", "b">>,
      <<".", "g", "o">>,
      <<".", "r", "s">>,
      <<".", "s", "w", "i", "f", "t">>,
      <<".", "k", "t">>,
      <<".", "h", "t", "m", "l">>,
      <<".", "h", "t", "m">>,
      <<".", "c", "s", "s">>>>

\* a review suspended at `await reviewCode(code, filename)`
AtReviewCode(p) == p.pc = "fetch"

\* C12: every code string that reaches reviewCode is non-empty and at most
\* 10MB long, whichever way it was loaded (file, textarea, GitHub URL)
C12_ReviewedCodeNonEmptyAndBounded ==
    \A k \in 1..Len(pending) :
        AtReviewCode(pending[k]) =>
            /\ pending[k].code # <<>>
            /\ Length(pending[k].code) <= MaxFileSize

\* C18: processFile never reports 'File type not supported' for a file whose
\* extension is in the README's Multi-Language Support table
C18_ReadmeExtensionsAccepted ==
    error.msg = ErrorFileType(<<>>).msg =>
        ~ArrayIncludes(ReadmeExtensions, error.ext)

\* C20: editing the text of a loaded file whose name has a recognized
\* extension does not replace that extension by one derived from the content
C20_EditKeepsExtension ==
    [][(/\ PasteChange
        /\ uploaderCode # <<>>
        /\ ~StartsWith(fileName, PastedName)
        /\ ArrayIncludes(validExtensions, Ext(fileName))) =>
           Ext(fileName') = Ext(fileName)]_vars

\* processFile refused the file
Rejected_processFile(e) ==
    e.msg \in {ErrorFileType(<<>>).msg, ErrorTooLarge.msg}

\* C22: when processFile rejects a file (extension not supported, or larger
\* than 10MB) it sets the error and changes nothing else: code and fileName
\* of FileUploader keep their values, onCodeLoaded is not called (the App
\* state is unchanged) and no read is started
C22_RejectedFileChangesOnlyError ==
    [][(SelectFile /\ Rejected_processFile(error')) =>
          /\ UNCHANGED <<uploaderCode, fileName, reads>>
          /\ UNCHANGED <<code, filename, issues, summary, stats>>]_vars

C22_Witness ==
    /\ error = ErrorTooLarge
    /\ Len(reads) = 1
    /\ code # <<>>

\* the results the App shows are what reviewCode returns for the code the
\* App holds, for some answer of the backend
ResultsOf(c) ==
    {reviewCode(c, outcome).value : outcome \in BackendOutcomes \ {"ok_null"}}

\* C23: whenever summary is non-null, issues, summary and stats were computed
\* from the code the App currently holds
C23_ResultsBelongToCurrentCode ==
    summary # Null =>
        \E r \in ResultsOf(code) :
            /\ issues = r.issues
            /\ summary = Some(r.summary)
            /\ stats = Some(r.stats)

\* C24: once the reads and fetches in flight have called back, the code and
\* fileName of FileUploader equal the code and filename of the App
C24_UploaderAndAppAgree ==
    (Mounted /\ reads = <<>> /\ fetches = <<>>) =>
        /\ uploaderCode = code
        /\ fileName = filename

\* C25: handleGithubFetch on a gist.github.com URL sets the gist error, resets
\* loading to false, starts no fetch and loads no code
C25_GistUrlRejected ==
    [][(GithubFetch /\ Includes(githubUrl, GistHost)) =>
          /\ error' = ErrorGist
          /\ uploaderLoading' = FALSE
          /\ UNCHANGED <<fetches, uploaderCode, fileName, code, filename>>]_vars

\* C26: at most one GitHub fetch is in flight at any time
C26_AtMostOneFetch == Len(fetches) <= 1

-----------------------------------------------------------------------------
(* Properties of the App component alone (SpecApp, SpecAppLive) *)

\* C27: whenever loading is true it eventually becomes false again
C27_LoadingEventuallyReset == loading ~> ~loading

C27_Witness ==
    /\ ~loading
    /\ pending = <<>>
    /\ alerts # <<>>
    /\ alerts[Len(alerts)] = "Error analyzing code"

\* C28: at most one review is in flight at any time, and loading is true
\* while it is
C28_AtMostOneReview ==
    /\ Len(pending) <= 1
    /\ pending # <<>> => loading

C28_Witness ==
    /\ Len(pending) = 1
    /\ pending[1].pc = "fetch"
    /\ loading
    /\ currentPage = "review"
    /\ code # <<>>
    /\ pending[1].code # code

\* C29: handleCodeLoaded leaves issues = [], summary = null, stats = null and
\* a language that is not the one reported for the previous code
C29_CodeLoadedDiscardsResults ==
    [][CodeLoaded =>
          /\ issues' = <<>>
          /\ summary' = Null
          /\ stats' = Null
          /\ language' = ""]_vars

====
